---- MODULE Spec2Model ----
(***************************************************************************)
(* Model of src/app.py, the Streamlit lead dashboard: the worksheet rows   *)
(* are fetched, the derived columns are computed, the four sidebar filters *)
(* narrow the table and the aggregates shown on the page are computed from *)
(* the filtered table.  The script runs top to bottom; pc is its position. *)
(*                                                                         *)
(* A DataFrame is a sequence of rows (records).  A blank cell of a text    *)
(* column is NaN; "Created Date" is 0 for a blank cell, -1 for text that   *)
(* does not parse as a date and m in 1..12 for a date in month m; a        *)
(* numeric cell is <<>> when blank and <<v>> when it holds v.              *)
(***************************************************************************)
EXTENDS Integers, Sequences, FiniteSets

VARIABLES sheet, leads_w_opps, lead_owner, sub_industry, month, classification,
          df, total_leads, convert_to_opp_pct, closed_won_count, total_opps,
          closed_won_rate, monthly, top_sources, qualified_counts, autotexts,
          stage_table, pc

vars == <<sheet, leads_w_opps, lead_owner, sub_industry, month, classification,
          df, total_leads, convert_to_opp_pct, closed_won_count, total_opps,
          closed_won_rate, monthly, top_sources, qualified_counts, autotexts,
          stage_table, pc>>

\* ------------------------------------------------------------------ bounds
MaxRowsFilter == 2
MaxRowsKpi == 2
MaxRowsMonthly == 3
MaxRowsClassify == 2
MaxRowsPie == 6
MaxRowsStage == 3
MaxRowsSources == 6

\* ------------------------------------------------------- values and helpers
NaN == "NaN"
NaT == 0
All == "All"

Range(s) == {s[i] : i \in 1..Len(s)}

RECURSIVE SetToSeq(_)
SetToSeq(S) ==
    IF S = {} THEN <<>>
    ELSE LET x == CHOOSE y \in S : TRUE IN <<x>> \o SetToSeq(S \ {x})

RECURSIVE GCD(_, _)
GCD(a, b) == IF b = 0 THEN a ELSE GCD(b, a % b)

\* A float result that the page shows: nan, or the exact quotient num/den in
\* lowest terms.
Ratio(n, d) == LET g == GCD(n, d) IN [nan |-> FALSE, num |-> n \div g, den |-> d \div g]
Zero == [nan |-> FALSE, num |-> 0, den |-> 1]
NaNFloat == [nan |-> TRUE, num |-> 0, den |-> 1]

\* lines 63-64 and 101-104
month_order == <<"January", "February", "March", "April", "May", "June", "July",
                 "August", "September", "October", "November", "December">>

\* line 237-240
stage_order == <<"Discovery", "Qualified", "Evaluation", "Pricing Negotiation",
                 "Legal Negotiation", "Proposal", "Closed Won", "Closed Lost",
                 "Unqualified">>

\* groupby returns its keys sorted; these are the text values of the model in
\* the order Python's string comparison gives them.
SortedText == <<"April", "August", "Closed Lost", "Closed Won", "December",
                "Discovery", "Evaluation", "February", "January", "July", "June",
                "Legal Negotiation", "March", "May", "Not Qualified", "November",
                "October", "Pricing Negotiation", "Proposal", "Prospecting",
                "Qualified", "S1", "S2", "S3", "S4", "S5", "S6", "S7",
                "September", "Unqualified">>

\* -------------------------------------------------------------- worksheet
BlankRow == [id |-> NaN, owner |-> NaN, sub |-> NaN, created |-> 0,
             qualified |-> NaN, segment |-> NaN, source |-> NaN, workflow |-> NaN,
             oppCreated |-> NaN, oppName |-> NaN, stage |-> NaN, arr |-> <<>>]

\* The rows a worksheet may hold in each family of runs: the columns the
\* checked aggregate reads vary, the other cells are blank.
RowsFilter ==
    {[BlankRow EXCEPT !.id = i, !.owner = o, !.sub = s, !.created = c, !.segment = g] :
        i \in {"L1"}, o \in {"O1", "O2"}, s \in {NaN, "I1"},
        c \in {0, 1, 2}, g \in {NaN, "Enterprise"}}

RowsKpi ==
    {[BlankRow EXCEPT !.id = i, !.oppCreated = c, !.oppName = n, !.stage = s] :
        i \in {NaN, "L1", "L2"}, c \in {NaN, "d"}, n \in {NaN, "Opp1", "Opp2"},
        s \in {"Closed Won", "Discovery"}}

RowsMonthly ==
    {[BlankRow EXCEPT !.id = i, !.created = c] :
        i \in {NaN, "L1", "L2"}, c \in {-1, 0, 1, 2, 4, 12}}

RowsClassify ==
    {[BlankRow EXCEPT !.id = i, !.segment = g, !.workflow = w, !.source = s] :
        i \in {"L1"}, g \in {NaN, "Mid Market", "Mass Market", "Enterprise", "Strategic"},
        w \in {NaN, "wf"}, s \in {NaN, "Expansion Readiness", "S1"}}
    \cup {[BlankRow EXCEPT !.id = "L2", !.segment = "Enterprise",
                           !.source = "Expansion Readiness"]}

RowsPie ==
    {[BlankRow EXCEPT !.id = i, !.qualified = q] :
        i \in {"L1", "L2", "L3", "L4", "L5", "L6"}, q \in {"d"}}
    \cup {[BlankRow EXCEPT !.id = i] : i \in {"L1", "L6", "L7"}}

RowsStage ==
    {[BlankRow EXCEPT !.id = i, !.stage = s, !.arr = a] :
        i \in {"L1", "L2"}, s \in {NaN, "Closed Won", "Discovery", "Prospecting"},
        a \in {<<>>, <<100>>}}
    \cup {[BlankRow EXCEPT !.stage = "Closed Lost"]}

RowsSources ==
    {[BlankRow EXCEPT !.id = i, !.source = s] :
        i \in {"L1"}, s \in {NaN, "S2", "S3", "S4", "S5", "S6"}}
    \cup {[BlankRow EXCEPT !.id = "L2", !.source = "S6"],
          [BlankRow EXCEPT !.source = "S1"]}

UFilter == SetToSeq(RowsFilter)
UKpi == SetToSeq(RowsKpi)
UMonthly == SetToSeq(RowsMonthly)
UClassify == SetToSeq(RowsClassify)
UPie == SetToSeq(RowsPie)
UStage == SetToSeq(RowsStage)
USources == SetToSeq(RowsSources)

Idx(U, r) == CHOOSE j \in 1..Len(U) : U[j] = r

\* ------------------------------------------------------------ pandas pieces
\* a comparison under which a blank cell matches every value
Eq_BlankMatches(a, v) == a = NaN \/ a = v

\* s == v on a column: a blank cell equals nothing.
Eq(a, v) == a # NaN /\ a = v

\* Series.dropna().unique()
Unique(d, col) == {d[i][col] : i \in 1..Len(d)} \ {NaN}

\* Series.nunique(): distinct values, blanks not counted.
nunique(d, col) == Cardinality(Unique(d, col))

\* Series.notna().sum()
CountNotNa(d, col) == Cardinality({i \in 1..Len(d) : d[i][col] # NaN})

\* df[df[col] == v]
Mask(d, col, v) == SelectSeq(d, LAMBDA r : Eq(r[col], v))

\* keys of df.groupby(col): the distinct non-blank values, sorted.
GroupKeys(d, col) == SelectSeq(SortedText, LAMBDA k : k \in Unique(d, col))

\* df.groupby(col)["Lead 18-Digit ID"].nunique() as a sequence of <<key, count>>.
groupby_nunique(d, col) ==
    LET ks == GroupKeys(d, col)
    IN [j \in 1..Len(ks) |-> <<ks[j], nunique(Mask(d, col, ks[j]), "id")>>]

Index(s) == {s[j][1] : j \in 1..Len(s)}
Lookup(s, k) == (CHOOSE j \in 1..Len(s) : s[j][1] = k)

\* ------------------------------------------------------------ field deriver
\* line 40: pd.to_datetime(errors="coerce")
to_datetime(c) == IF c \in 1..12 THEN c ELSE NaT

\* line 42: .dt.strftime('%B')
strftime_B(dt) == IF dt = NaT THEN NaN ELSE month_order[dt]

\* line 45
is_qualified(q) == IF q # NaN THEN "Qualified" ELSE "Not Qualified"

\* classify_account without its final else
classify_account_NoElse(row) ==
    IF row.segment \in {"Mid Market", "Mass Market"} THEN "SMB"
    ELSE IF row.segment = "Enterprise" THEN "ENT"
    ELSE NaN

\* lines 48-55
classify_account(row) ==
    IF row.segment \in {"Mid Market", "Mass Market"} THEN "SMB"
    ELSE IF row.segment = "Enterprise" THEN "ENT"
    ELSE "Unclassified"

\* Variant A with the lead-source rules tried before the workflow rules
classify_account_A_SourceFirst(row) ==
    IF row.segment \in {"Mid Market", "Mass Market"} /\ row.source = "Expansion Readiness"
         THEN "SMB Expansion"
    ELSE IF row.segment \in {"Mid Market", "Mass Market"} /\ row.workflow # NaN THEN "SMB Net New"
    ELSE IF row.segment = "Enterprise" /\ row.source = "Expansion Readiness"
         THEN "ENT Expansion"
    ELSE IF row.segment = "Enterprise" /\ row.workflow # NaN THEN "ENT Net New"
    ELSE "Unclassified"

\* The 4-way rule set of the second dashboard script (Variant A).
classify_account_A(row) ==
    IF row.segment \in {"Mid Market", "Mass Market"} /\ row.workflow # NaN THEN "SMB Net New"
    ELSE IF row.segment \in {"Mid Market", "Mass Market"} /\ row.source = "Expansion Readiness"
         THEN "SMB Expansion"
    ELSE IF row.segment = "Enterprise" /\ row.workflow # NaN THEN "ENT Net New"
    ELSE IF row.segment = "Enterprise" /\ row.source = "Expansion Readiness"
         THEN "ENT Expansion"
    ELSE "Unclassified"

\* line 35: dropna(how='all')
AllBlank(r) == r = BlankRow

\* lines 40-57: the row with its dates parsed and its three derived cells;
\* label is the row's Account Classification.
DeriveRow(r, label) ==
    LET dt == to_datetime(r.created)
    IN [id |-> r.id, owner |-> r.owner, sub |-> r.sub, created |-> dt,
        qualified |-> r.qualified, segment |-> r.segment, source |-> r.source,
        workflow |-> r.workflow, oppCreated |-> r.oppCreated, oppName |-> r.oppName,
        stage |-> r.stage, arr |-> r.arr,
        month |-> strftime_B(dt), isq |-> is_qualified(r.qualified),
        cls |-> label]

\* line 35
DropBlankRows(s) == SelectSeq(s, LAMBDA r : ~AllBlank(r))

\* lines 35-57
DeriveTable(s) ==
    LET kept == DropBlankRows(s)
    IN [i \in 1..Len(kept) |-> DeriveRow(kept[i], classify_account(kept[i]))]

\* the same with the Variant A classifier
DeriveTableA(s) ==
    LET kept == DropBlankRows(s)
    IN [i \in 1..Len(kept) |-> DeriveRow(kept[i], classify_account_A(kept[i]))]

\* ------------------------------------------------------------ filter engine
\* lines 61-67: the choices of the four select boxes.
OwnerOptions(t) == {All} \cup Unique(t, "owner")
SubIndustryOptions(t) == {All} \cup Unique(t, "sub")
months_available(t) == SelectSeq(month_order, LAMBDA m : m \in Unique(t, "month"))
MonthOptions(t) == {All} \cup Range(months_available(t))
ClassificationOptions(t) == {All} \cup Unique(t, "cls")

\* one "if x != 'All': df = df[df[col] == x]" step
FilterStep(d, col, sel) == IF sel # All THEN Mask(d, col, sel) ELSE d

\* lines 70-78
ApplyFilterSteps(t, lo, si, mo, cl) ==
    FilterStep(FilterStep(FilterStep(FilterStep(t, "owner", lo), "sub", si), "month", mo), "cls", cl)

\* --------------------------------------------------------------- aggregator
\* nunique(dropna=False)
TotalLeads_CountBlank(d) == Cardinality({d[i].id : i \in 1..Len(d)})

\* line 84
TotalLeads(d) == nunique(d, "id")

\* line 85: notna().mean() * 100; the mean of an empty Series is nan.
ConvertToOppPct(d) ==
    IF Len(d) = 0 THEN NaNFloat ELSE Ratio(CountNotNa(d, "oppCreated") * 100, Len(d))

\* line 86
ClosedWonCount(d) == Len(Mask(d, "stage", "Closed Won"))

\* line 87
TotalOpps(d) == nunique(d, "oppName")

\* the rate without its zero branch
ClosedWonRate_NaN(cw, opps) == IF opps > 0 THEN Ratio(cw * 100, opps) ELSE NaNFloat

\* line 88
ClosedWonRate(cw, opps) == IF opps > 0 THEN Ratio(cw * 100, opps) ELSE Zero

\* Series.reindex(labels) on a sequence of <<key, count>> whose labels are all
\* in the index.
reindex(s, labels) == [j \in 1..Len(labels) |-> s[Lookup(s, labels[j])]]

\* the monthly series left in the order of the group-by
MonthlyCounts_NoReindex(d) == groupby_nunique(d, "month")

\* lines 100-105
MonthlyCounts(d) ==
    LET grouped == groupby_nunique(d, "month")
        ordered_months == month_order
    IN reindex(grouped, SelectSeq(ordered_months, LAMBDA m : m \in Index(grouped)))

MaxCount(S) == CHOOSE c \in {e[2] : e \in S} : \A e \in S : e[2] <= c

\* sort_values(ascending=False): every arrangement with non-increasing counts;
\* the order of equal counts is left to the sort.
RECURSIVE sort_values_desc(_)
sort_values_desc(S) ==
    IF S = {} THEN {<<>>}
    ELSE UNION {{<<e>> \o o : o \in sort_values_desc(S \ {e})} :
                   e \in {x \in S : x[2] = MaxCount(S)}}

head(s, n) == SubSeq(s, 1, IF Len(s) < n THEN Len(s) ELSE n)

\* the top sources without the sort
TopSourcesOutcomes_Unsorted(d) == {head(groupby_nunique(d, "source"), 5)}

\* lines 128-133
TopSourcesOutcomes(d) ==
    {head(o, 5) : o \in sort_values_desc(Range(groupby_nunique(d, "source")))}

\* sum(qualified_counts)
RECURSIVE SumCounts(_)
SumCounts(s) == IF s = <<>> THEN 0 ELSE s[1][2] + SumCounts(Tail(s))

\* Binary long division: shifts the quotient of c/t until it has 24
\* significant bits; returns <<quotient, remainder>>.
RECURSIVE LongDiv(_, _, _)
LongDiv(q, r, t) ==
    IF q >= 8388608 THEN <<q, r>>
    ELSE IF 2 * r >= t THEN LongDiv(2 * q + 1, 2 * r - t, t)
    ELSE LongDiv(2 * q, 2 * r, t)

\* matplotlib's pie turns the counts into float32 and divides by their sum:
\* the float32 quotient of c/t, 0 < c <= t, as its 24-bit significand m and
\* the signed error d (in units of 1/t of the last place; d < 0: the float is
\* below c/t), rounded to nearest, ties to even.
Float32Div(c, t) ==
    LET qr == LongDiv(c \div t, c % t, t)
        q == qr[1]
        r == qr[2]
        up == 2 * r > t \/ (2 * r = t /\ q % 2 = 1)
    IN [m |-> IF up THEN q + 1 ELSE q, d |-> IF up THEN t - r ELSE 0 - r]

\* 100. * frac kept in float32: the signed rounding error of the 24-bit
\* product, in units of the last place of frac.
Float32Mul100Err(m) ==
    LET P == 100 * m
        unit == IF P >= 1073741824 THEN 128 ELSE 64
        low == P % unit
        q == P \div unit
        up == 2 * low > unit \/ (2 * low = unit /\ q % 2 = 1)
    IN IF up THEN unit - low ELSE 0 - low

\* The float p * sum(qualified_counts) / 100 of line 200 for a group of c
\* leads out of t: it lies within a rounding error of c, and `below` tells
\* whether it is under c.  promotion is how the build multiplies 100. by a
\* float32: "float64" keeps the float32 quotient exactly, "float32" rounds
\* the product to float32 again.
PctTimesTotal(c, t, promotion) ==
    IF c = 0 THEN [whole |-> 0, below |-> FALSE]
    ELSE LET f == Float32Div(c, t)
         IN [whole |-> c,
             below |-> IF promotion = "float64" THEN f.d < 0
                       ELSE 100 * f.d + Float32Mul100Err(f.m) * t < 0]

\* int(x): truncation towards zero
int(v) == IF v.below THEN v.whole - 1 ELSE v.whole

Promotions == {"float64", "float32"}

\* line 200: the count in the label of each wedge
autopct(counts, promotion) ==
    [j \in 1..Len(counts) |->
        <<counts[j][1], int(PctTimesTotal(counts[j][2], SumCounts(counts), promotion))>>]

RECURSIVE SumArr(_)
SumArr(d) ==
    IF d = <<>> THEN 0
    ELSE (IF d[1].arr = <<>> THEN 0 ELSE d[1].arr[1]) + SumArr(Tail(d))

\* lines 242-247: groupby("Stage").agg(sum, nunique)
StageAgg(d) ==
    LET ks == GroupKeys(d, "stage")
    IN [j \in 1..Len(ks) |->
          [Stage |-> ks[j], arr |-> <<SumArr(Mask(d, "stage", ks[j]))>>,
           count |-> <<nunique(Mask(d, "stage", ks[j]), "id")>>]]

\* line 248: DataFrame.reindex: a label without a group gets blank cells
reindex_frame(g, labels) ==
    [j \in 1..Len(labels) |->
        IF \E i \in 1..Len(g) : g[i].Stage = labels[j]
        THEN g[CHOOSE i \in 1..Len(g) : g[i].Stage = labels[j]]
        ELSE [Stage |-> labels[j], arr |-> <<>>, count |-> <<>>]]

\* line 249: dropna(how='all')
dropna_all(s) == SelectSeq(s, LAMBDA e : ~(e.arr = <<>> /\ e.count = <<>>))

\* the stage summary without the reindex
StageTable_NoReindex(d) == dropna_all(StageAgg(d))

\* lines 241-251
StageTable(d) == dropna_all(reindex_frame(StageAgg(d), stage_order))

\* ------------------------------------------------------------------ script
Init ==
    /\ sheet = <<>>
    /\ leads_w_opps = <<>>
    /\ lead_owner = All
    /\ sub_industry = All
    /\ month = All
    /\ classification = All
    /\ df = <<>>
    /\ total_leads = 0
    /\ convert_to_opp_pct = Zero
    /\ closed_won_count = 0
    /\ total_opps = 0
    /\ closed_won_rate = Zero
    /\ monthly = <<>>
    /\ top_sources = <<>>
    /\ qualified_counts = <<>>
    /\ autotexts = <<>>
    /\ stage_table = <<>>
    /\ pc = "fetch"

\* line 35: get_as_dataframe reads one more row of the worksheet.  Rows are
\* read in the order of U: no modelled operation depends on the row order.
Fetch(U, n) ==
    /\ pc = "fetch"
    /\ Len(sheet) < n
    /\ \E i \in 1..Len(U) :
          /\ IF sheet = <<>> THEN TRUE ELSE Idx(U, sheet[Len(sheet)]) <= i
          /\ sheet' = Append(sheet, U[i])
    /\ UNCHANGED <<leads_w_opps, lead_owner, sub_industry, month, classification,
                   df, total_leads, convert_to_opp_pct, closed_won_count, total_opps,
                   closed_won_rate, monthly, top_sources, qualified_counts, autotexts,
                   stage_table, pc>>

\* lines 35-57; t is the derived table
DeriveStep(t) ==
    /\ pc = "fetch"
    /\ Len(sheet) > 0
    /\ leads_w_opps' = t
    /\ pc' = "select"
    /\ UNCHANGED <<sheet, lead_owner, sub_industry, month, classification,
                   df, total_leads, convert_to_opp_pct, closed_won_count, total_opps,
                   closed_won_rate, monthly, top_sources, qualified_counts, autotexts,
                   stage_table>>

Derive == DeriveStep(DeriveTable(sheet))

DeriveA == DeriveStep(DeriveTableA(sheet))

\* lines 61-67
Select ==
    /\ pc = "select"
    /\ \E lo \in OwnerOptions(leads_w_opps), si \in SubIndustryOptions(leads_w_opps),
          mo \in MonthOptions(leads_w_opps), cl \in ClassificationOptions(leads_w_opps) :
          /\ lead_owner' = lo
          /\ sub_industry' = si
          /\ month' = mo
          /\ classification' = cl
    /\ pc' = "filter"
    /\ UNCHANGED <<sheet, leads_w_opps,
                   df, total_leads, convert_to_opp_pct, closed_won_count, total_opps,
                   closed_won_rate, monthly, top_sources, qualified_counts, autotexts,
                   stage_table>>

\* lines 70-78
ApplyFilters ==
    /\ pc = "filter"
    /\ df' = ApplyFilterSteps(leads_w_opps, lead_owner, sub_industry, month, classification)
    /\ pc' = "kpi"
    /\ UNCHANGED <<sheet, leads_w_opps, lead_owner, sub_industry, month, classification,
                   total_leads, convert_to_opp_pct, closed_won_count, total_opps,
                   closed_won_rate, monthly, top_sources, qualified_counts, autotexts,
                   stage_table>>

\* lines 84-88
Kpi ==
    /\ pc = "kpi"
    /\ total_leads' = TotalLeads(df)
    /\ convert_to_opp_pct' = ConvertToOppPct(df)
    /\ closed_won_count' = ClosedWonCount(df)
    /\ total_opps' = TotalOpps(df)
    /\ closed_won_rate' = ClosedWonRate(ClosedWonCount(df), TotalOpps(df))
    /\ pc' = "monthly"
    /\ UNCHANGED <<sheet, leads_w_opps, lead_owner, sub_industry, month, classification,
                   df, monthly, top_sources, qualified_counts, autotexts, stage_table>>

\* lines 100-105
Monthly ==
    /\ pc = "monthly"
    /\ monthly' = MonthlyCounts(df)
    /\ pc' = "sources"
    /\ UNCHANGED <<sheet, leads_w_opps, lead_owner, sub_industry, month, classification,
                   df, total_leads, convert_to_opp_pct, closed_won_count, total_opps,
                   closed_won_rate, top_sources, qualified_counts, autotexts, stage_table>>

\* lines 128-133
TopSources ==
    /\ pc = "sources"
    /\ top_sources' \in TopSourcesOutcomes(df)
    /\ pc' = "pie"
    /\ UNCHANGED <<sheet, leads_w_opps, lead_owner, sub_industry, month, classification,
                   df, total_leads, convert_to_opp_pct, closed_won_count, total_opps,
                   closed_won_rate, monthly, qualified_counts, autotexts, stage_table>>

\* lines 191-203.  When the groups hold no lead at all the wedge fractions are
\* 0/0 and int() of the nan raises: the run stops there.
QualifiedPie ==
    /\ pc = "pie"
    /\ qualified_counts' = groupby_nunique(df, "isq")
    /\ \E promotion \in Promotions :
          LET counts == groupby_nunique(df, "isq")
              raises == counts # <<>> /\ SumCounts(counts) = 0
          IN /\ autotexts' = IF raises THEN <<>> ELSE autopct(counts, promotion)
             /\ pc' = IF raises THEN "failed" ELSE "stage"
    /\ UNCHANGED <<sheet, leads_w_opps, lead_owner, sub_industry, month, classification,
                   df, total_leads, convert_to_opp_pct, closed_won_count, total_opps,
                   closed_won_rate, monthly, top_sources, stage_table>>

\* lines 237-251
StageSummary ==
    /\ pc = "stage"
    /\ stage_table' = StageTable(df)
    /\ pc' = "done"
    /\ UNCHANGED <<sheet, leads_w_opps, lead_owner, sub_industry, month, classification,
                   df, total_leads, convert_to_opp_pct, closed_won_count, total_opps,
                   closed_won_rate, monthly, top_sources, qualified_counts, autotexts>>

\* Streamlit runs the script again from the top on the next interaction; the
\* worksheet keeps its rows and may have gained some.
Rerun ==
    /\ pc \in {"done", "failed"}
    /\ pc' = "fetch"
    /\ leads_w_opps' = <<>>
    /\ lead_owner' = All
    /\ sub_industry' = All
    /\ month' = All
    /\ classification' = All
    /\ df' = <<>>
    /\ total_leads' = 0
    /\ convert_to_opp_pct' = Zero
    /\ closed_won_count' = 0
    /\ total_opps' = 0
    /\ closed_won_rate' = Zero
    /\ monthly' = <<>>
    /\ top_sources' = <<>>
    /\ qualified_counts' = <<>>
    /\ autotexts' = <<>>
    /\ stage_table' = <<>>
    /\ UNCHANGED sheet

Page == Select \/ ApplyFilters \/ Kpi \/ Monthly \/ TopSources \/ QualifiedPie
            \/ StageSummary \/ Rerun

FetchFilter == Fetch(UFilter, MaxRowsFilter)
FetchKpi == Fetch(UKpi, MaxRowsKpi)
FetchMonthly == Fetch(UMonthly, MaxRowsMonthly)
FetchClassify == Fetch(UClassify, MaxRowsClassify)
FetchPie == Fetch(UPie, MaxRowsPie)
FetchStage == Fetch(UStage, MaxRowsStage)
FetchSources == Fetch(USources, MaxRowsSources)

NextFilter == FetchFilter \/ Derive \/ Page
NextKpi == FetchKpi \/ Derive \/ Page
NextMonthly == FetchMonthly \/ Derive \/ Page
NextClassify == FetchClassify \/ Derive \/ Page
NextClassifyA == FetchClassify \/ DeriveA \/ Page
NextPie == FetchPie \/ Derive \/ Page
NextStage == FetchStage \/ Derive \/ Page
NextSources == FetchSources \/ Derive \/ Page

SpecFilter == Init /\ [][NextFilter]_vars
SpecKpi == Init /\ [][NextKpi]_vars
SpecMonthly == Init /\ [][NextMonthly]_vars
SpecClassify == Init /\ [][NextClassify]_vars
SpecClassifyA == Init /\ [][NextClassifyA]_vars
SpecPie == Init /\ [][NextPie]_vars
SpecStage == Init /\ [][NextStage]_vars
SpecSources == Init /\ [][NextSources]_vars

\* ---------------------------------------------------------------- positions
Derived == pc # "fetch"
AfterFilters == pc \notin {"fetch", "select", "filter"}
AfterKpi == AfterFilters /\ pc # "kpi"
AfterMonthly == AfterKpi /\ pc # "monthly"
AfterSources == AfterMonthly /\ pc # "sources"
AfterPie == pc \in {"stage", "done"}
AfterStage == pc = "done"

Rows(d) == 1..Len(d)

\* ------------------------------------------------------------------- claims
FilterCols == <<"owner", "sub", "month", "cls">>

Selected(col) ==
    CASE col = "owner" -> lead_owner
      [] col = "sub" -> sub_industry
      [] col = "month" -> month
      [] col = "cls" -> classification

Orders == {o \in [1..4 -> 1..4] : \A i, j \in 1..4 : i # j => o[i] # o[j]}

RECURSIVE ApplyInOrder(_, _, _)
ApplyInOrder(t, o, k) ==
    IF k = 0 THEN t
    ELSE FilterStep(ApplyInOrder(t, o, k - 1), FilterCols[o[k]], Selected(FilterCols[o[k]]))

MatchesSelection(r) ==
    \A c \in Range(FilterCols) : Selected(c) # All => (r[c] # NaN /\ r[c] = Selected(c))

\* C1: the filtered table is exactly the rows of the derived table that equal
\* the selection on every dimension whose selection is not 'All' (in their
\* original order), no row with a missing value on an active dimension is in
\* it, and applying the four filters in any order gives the same table.
C1_FilterIsConjunction ==
    AfterFilters =>
        /\ df = SelectSeq(leads_w_opps, MatchesSelection)
        /\ \A i \in Rows(df), c \in Range(FilterCols) : Selected(c) # All => df[i][c] # NaN
        /\ \A o \in Orders : ApplyInOrder(leads_w_opps, o, 4) = df

C1_Witness ==
    /\ AfterFilters
    /\ lead_owner # All
    /\ sub_industry # All
    /\ Len(df) = 1
    /\ \E i \in Rows(leads_w_opps) :
          leads_w_opps[i].owner = lead_owner /\ leads_w_opps[i].sub = NaN

\* C2: total_leads is the number of distinct Lead ID values of the filtered
\* table and never exceeds its number of rows.
C2_TotalLeadsDistinct ==
    AfterKpi =>
        /\ total_leads = Cardinality({df[i].id : i \in Rows(df)} \ {NaN})
        /\ total_leads <= Len(df)

C2_Witness ==
    /\ AfterKpi
    /\ Len(df) = 2
    /\ total_leads = 1
    /\ \E i \in Rows(df) : df[i].id = NaN

WonRows == {i \in Rows(df) : df[i].stage = "Closed Won"}
OppNames == {df[i].oppName : i \in Rows(df)} \ {NaN}

\* C3: closed_won_rate is exactly 0 when the filtered table has no distinct
\* Opportunity Name, whatever the number of Closed Won rows; otherwise it is
\* (Closed Won rows) / (distinct Opportunity Names) x 100.
C3_ClosedWonRate ==
    AfterKpi =>
        /\ ~closed_won_rate.nan
        /\ Cardinality(OppNames) = 0 => closed_won_rate = Zero
        /\ Cardinality(OppNames) > 0 =>
              closed_won_rate.num * Cardinality(OppNames)
                  = Cardinality(WonRows) * 100 * closed_won_rate.den

C3_Witness ==
    /\ AfterKpi
    /\ Cardinality(OppNames) = 0
    /\ Cardinality(WonRows) = 2
    /\ closed_won_rate = Zero

\* C4: a rate whose denominator is zero is 0: when the filtered table has no
\* row, convert_to_opp_pct is 0.
C4_ConvertPctZeroOnEmpty ==
    (AfterKpi /\ Len(df) = 0) => convert_to_opp_pct = Zero

MonthPos(m) == CHOOSE k \in 1..12 : month_order[k] = m

\* C5: the month labels of the monthly series are months of January..December
\* in calendar order, they are exactly the Created Months of the filtered
\* rows, and each value is the number of distinct Lead IDs of that month.
C5_MonthlyCalendarOrder ==
    AfterMonthly =>
        /\ \A j \in Rows(monthly) : monthly[j][1] \in Range(month_order)
        /\ \A j, k \in Rows(monthly) :
              j < k => MonthPos(monthly[j][1]) < MonthPos(monthly[k][1])
        /\ {monthly[j][1] : j \in Rows(monthly)} = {df[i].month : i \in Rows(df)} \ {NaN}
        /\ \A j \in Rows(monthly) :
              monthly[j][2] =
                  Cardinality({df[i].id : i \in {x \in Rows(df) : df[x].month = monthly[j][1]}}
                                  \ {NaN})

C5_Witness ==
    /\ AfterMonthly
    /\ Len(monthly) = 2
    /\ monthly[1][1] = "February"
    /\ monthly[2][1] = "April"
    /\ \E i \in Rows(df) : df[i].month = NaN

\* C6: under Variant A an Enterprise row with a workflow indicator is
\* 'ENT Net New' whatever its Lead Source, and an Enterprise row without one
\* whose Lead Source is 'Expansion Readiness' is 'ENT Expansion'.
C6_VariantAEnterprise ==
    Derived =>
        \A i \in Rows(leads_w_opps) :
            LET r == leads_w_opps[i]
            IN /\ (r.segment = "Enterprise" /\ r.workflow # NaN) => r.cls = "ENT Net New"
               /\ (r.segment = "Enterprise" /\ r.workflow = NaN
                       /\ r.source = "Expansion Readiness") => r.cls = "ENT Expansion"

C6_Witness ==
    /\ Derived
    /\ \E i, j \in Rows(leads_w_opps) :
          /\ leads_w_opps[i].id = "L1"
          /\ leads_w_opps[i].segment = "Enterprise"
          /\ leads_w_opps[i].workflow # NaN
          /\ leads_w_opps[i].source = "Expansion Readiness"
          /\ leads_w_opps[i].cls = "ENT Net New"
          /\ leads_w_opps[j].id = "L2"
          /\ leads_w_opps[j].segment = "Enterprise"
          /\ leads_w_opps[j].cls = "ENT Expansion"

NonBlankRows == {i \in Rows(sheet) : sheet[i] # BlankRow}

\* C7: every row of the worksheet that is kept gets exactly one of the labels
\* SMB, ENT, Unclassified as its Account Classification, also when its
\* Segment is missing or is none of Mid Market, Mass Market, Enterprise.
C7_ClassificationTotal ==
    Derived =>
        /\ Len(leads_w_opps) = Cardinality(NonBlankRows)
        /\ \A i \in Rows(leads_w_opps) :
              leads_w_opps[i].cls \in {"SMB", "ENT", "Unclassified"}

C7_Witness ==
    /\ Derived
    /\ \E i, j \in Rows(leads_w_opps) :
          /\ leads_w_opps[i].segment = NaN
          /\ leads_w_opps[i].cls = "Unclassified"
          /\ leads_w_opps[j].segment = "Strategic"
          /\ leads_w_opps[j].cls = "Unclassified"

\* round(x) of a float within a rounding error of a whole number
round(v) == v.whole

\* C8: the count shown in each wedge label of the Qualified pie is
\* round(percent x total / 100), percent being the wedge's percentage and
\* total the sum of the group counts.
C8_ShownCountIsRounded ==
    AfterPie =>
        \A j \in Rows(autotexts) :
            \E promotion \in Promotions :
                autotexts[j][2] =
                    round(PctTimesTotal(qualified_counts[j][2], SumCounts(qualified_counts),
                                        promotion))

StagePos(s) == CHOOSE k \in 1..Len(stage_order) : stage_order[k] = s

StageRows(s) == {i \in Rows(df) : df[i].stage = s}

RECURSIVE SumOfArr(_)
SumOfArr(I) ==
    IF I = {} THEN 0
    ELSE LET i == CHOOSE x \in I : TRUE
         IN (IF df[i].arr = <<>> THEN 0 ELSE df[i].arr[1]) + SumOfArr(I \ {i})

\* C9: the stage summary lists its stages in the order of stage_order; a stage
\* of stage_order is listed iff some filtered row has it, with the sum of ARR
\* Delta and the number of distinct Lead IDs of those rows.
C9_StageSummary ==
    AfterStage =>
        /\ \A j, k \in Rows(stage_table) :
              j < k => StagePos(stage_table[j].Stage) < StagePos(stage_table[k].Stage)
        /\ \A s \in Range(stage_order) :
              (\E j \in Rows(stage_table) : stage_table[j].Stage = s) <=> StageRows(s) # {}
        /\ \A j \in Rows(stage_table) :
              /\ stage_table[j].Stage \in Range(stage_order)
              /\ stage_table[j].arr = <<SumOfArr(StageRows(stage_table[j].Stage))>>
              /\ stage_table[j].count =
                    <<Cardinality({df[i].id : i \in StageRows(stage_table[j].Stage)} \ {NaN})>>

C9_Witness ==
    /\ AfterStage
    /\ Len(stage_table) = 2
    /\ stage_table[1].Stage = "Discovery"
    /\ stage_table[2].Stage = "Closed Won"
    /\ stage_table[2].arr = <<100>>
    /\ \E i \in Rows(df) : df[i].stage = "Prospecting"

Sources == {df[i].source : i \in Rows(df)} \ {NaN}
SourceLeads(s) == Cardinality({df[i].id : i \in {x \in Rows(df) : df[x].source = s}} \ {NaN})
Shown == {top_sources[j][1] : j \in Rows(top_sources)}

\* C10: the top lead sources are min(5, number of distinct non-missing Lead
\* Sources) entries, each a Lead Source of the filtered table with its
\* number of distinct Lead IDs, in non-increasing order of that number, and no
\* source left out has more leads than a source shown.
C10_TopSources ==
    AfterSources =>
        /\ Len(top_sources) = (IF Cardinality(Sources) < 5 THEN Cardinality(Sources) ELSE 5)
        /\ Cardinality(Shown) = Len(top_sources)
        /\ Shown \subseteq Sources
        /\ \A j \in Rows(top_sources) : top_sources[j][2] = SourceLeads(top_sources[j][1])
        /\ \A j, k \in Rows(top_sources) : j < k => top_sources[j][2] >= top_sources[k][2]
        /\ \A s \in Sources \ Shown, j \in Rows(top_sources) : SourceLeads(s) <= top_sources[j][2]

C10_Witness ==
    /\ AfterSources
    /\ Cardinality(Sources) = 6
    /\ Len(top_sources) = 5
    /\ "S1" \notin Shown
    /\ SourceLeads("S1") = 0

====
